---- MODULE Spec2Model ----
(***************************************************************************)
(* ivy/data_classes/array/experimental/activations.py                      *)
(*                                                                         *)
(* _ArrayWithActivationsExperimental: eleven instance methods, each of     *)
(* which binds its arguments and forwards them to the function of the same *)
(* name in the ivy namespace.  The backend functions are external; they    *)
(* are modelled as a recording stub that may return any value, write into  *)
(* the buffer of the `out` handle it was given, or raise.                  *)
(*                                                                         *)
(* Python values are written as their repr: "None", "'jax'", "1.0", "1".   *)
(* An array handle is "h<i>"; the native buffer it wraps (`_data`) is      *)
(* "b<i>".                                                                 *)
(***************************************************************************)
EXTENDS Integers, Sequences, FiniteSets, TLC

VARIABLES
  pc,        \* "idle" | "backend" | "ret_pending" | "exc_pending" | "returned" | "raised"
  call,      \* the facade call in progress: method, receiver, positional and keyword arguments
  log,       \* backend invocations recorded since the call started
  bres,      \* outcome of the backend invocation
  result,    \* outcome of the facade call as seen by its caller
  data,      \* handle -> native buffer (the `_data` attribute)
  contents   \* native buffer -> stored value

vars == <<pc, call, log, bres, result, data, contents>>

----------------------------------------------------------------------------
(* Bounds *)
NumHandles == 2
MaxPos == 1
MaxKw == 3

----------------------------------------------------------------------------
(* Values *)
None == "None"
TypeError == "TypeError"

HandleNames == <<"h1", "h2", "h3", "h4">>
BufferNames == <<"b1", "b2", "b3", "b4">>
Handles == {HandleNames[i] : i \in 1..NumHandles}
Buffers == {BufferNames[i] : i \in 1..NumHandles}
BufVals == {"x", "y"}

MethodNames ==
  {"logit", "thresholded_relu", "prelu", "relu6", "logsigmoid", "selu",
   "silu", "elu", "hardtanh", "tanhshrink", "celu"}

KwNames ==
  {"eps", "complex_mode", "threshold", "slope", "alpha", "max_val", "min_val", "out"}

(* argument values a caller may pass under each keyword *)
ValuesOf(n) ==
  CASE n = "eps"          -> {"0.2"}
    [] n = "complex_mode" -> {"'split'"}
    [] n = "threshold"    -> {"0.5"}
    [] n = "slope"        -> {"0.1"}
    [] n = "alpha"        -> {"2.0"}
    [] n = "max_val"      -> {"2"}
    [] n = "min_val"      -> {"0"}
    [] n = "out"          -> Handles

AllVals == UNION {ValuesOf(n) : n \in KwNames}

(* argument values a caller may pass positionally *)
PosVals == {"0.1", "'magnitude'"}

PosArgs == UNION {[1..k -> PosVals] : k \in 0..MaxPos}

KwArgs ==
  UNION {{f \in [S -> AllVals] : \A n \in S : f[n] \in ValuesOf(n)} :
           S \in {T \in SUBSET KwNames : Cardinality(T) <= MaxKw}}

EmptyKw == [n \in {} |-> None]

(* values and errors the backend stub may produce *)
RetVals == Handles \cup {"sentinel"}
BackendErrors == {"e1", "e2"}

NoOutcome == [kind |-> "none", val |-> None]
Ret(v) == [kind |-> "ret", val |-> v]
Exc(e) == [kind |-> "exc", val |-> e]

NoCall == [method |-> "none", recv |-> None, pos |-> <<>>, kw |-> EmptyKw]

----------------------------------------------------------------------------
(* Python argument binding for a bound-method call with positional          *)
(* arguments pos and keyword arguments kw against a signature               *)
(* (self, posonly..., /, poskw..., *, kwonly...).                           *)
Range(s) == {s[i] : i \in 1..Len(s)}

IndexOf(s, n) == CHOOSE i \in 1..Len(s) : s[i] = n

Bind(sig, pos, kw) ==
  LET P       == sig.posonly \o sig.poskw
      given   == {P[i] : i \in 1..(IF Len(pos) < Len(P) THEN Len(pos) ELSE Len(P))}
      all     == Range(P) \cup sig.kwonly
      byName  == Range(sig.poskw) \cup sig.kwonly
      supplied == given \cup DOMAIN kw
  IN  IF Len(pos) > Len(P)
        THEN [ok |-> FALSE, args |-> EmptyKw]      \* too many positional arguments
      ELSE IF \E n \in DOMAIN kw : n \notin byName
        THEN [ok |-> FALSE, args |-> EmptyKw]      \* unexpected keyword argument
      ELSE IF \E n \in DOMAIN kw : n \in given
        THEN [ok |-> FALSE, args |-> EmptyKw]      \* multiple values for argument
      ELSE IF \E n \in all : n \notin supplied /\ n \notin DOMAIN sig.defaults
        THEN [ok |-> FALSE, args |-> EmptyKw]      \* missing required argument
      ELSE [ok |-> TRUE,
            args |-> [n \in all |->
                        IF n \in given THEN pos[IndexOf(P, n)]
                        ELSE IF n \in DOMAIN kw THEN kw[n]
                        ELSE sig.defaults[n]]]

(* the method body runs: its single statement calls the backend function *)
Forward(m, self, pos, kw, rec) ==
  /\ call' = [method |-> m, recv |-> self, pos |-> pos, kw |-> kw]
  /\ log' = Append(log, rec)
  /\ pc' = "backend"
  /\ UNCHANGED <<bres, result, data, contents>>

(* binding fails: TypeError is raised before the body runs *)
Reject(m, self, pos, kw) ==
  /\ call' = [method |-> m, recv |-> self, pos |-> pos, kw |-> kw]
  /\ pc' = "raised"
  /\ result' = Exc(TypeError)
  /\ UNCHANGED <<log, bres, data, contents>>

----------------------------------------------------------------------------
(* variant of logit_sig: complex_mode defaults to "split" *)
logit_sig_split ==
  [posonly |-> <<>>, poskw |-> <<>>, kwonly |-> {"eps", "complex_mode", "out"},
   defaults |-> [eps |-> None, complex_mode |-> "'split'", out |-> None]]

(* def logit, lines 10-17: the declared parameters after self and their defaults *)
logit_sig ==
  [posonly |-> <<>>, poskw |-> <<>>, kwonly |-> {"eps", "complex_mode", "out"},
   defaults |-> [eps |-> None, complex_mode |-> "'jax'", out |-> None]]

(* variant of logit_call: the raw buffer is unwrapped like in the other methods *)
logit_call_data(self, eps, complex_mode, out) ==
  [fn |-> "logit", args |-> <<data[self]>>,
   kwargs |-> [eps |-> eps, complex_mode |-> complex_mode, out |-> out]]

(* line 54: the backend invocation made by logit *)
logit_call(self, eps, complex_mode, out) ==
  [fn |-> "logit", args |-> <<self>>,
   kwargs |-> [eps |-> eps, complex_mode |-> complex_mode, out |-> out]]

(* a call of handle.logit with positional and keyword arguments: bind the arguments, then forward to ivy.logit *)
logit ==
  /\ pc = "idle"
  /\ \E self \in Handles, pos \in PosArgs, kw \in KwArgs :
       LET b == Bind(logit_sig, pos, kw) IN
       IF b.ok
       THEN Forward("logit", self, pos, kw, logit_call(self, b.args["eps"], b.args["complex_mode"], b.args["out"]))
       ELSE Reject("logit", self, pos, kw)

(* def thresholded_relu, lines 56-62: the declared parameters after self and their defaults *)
thresholded_relu_sig ==
  [posonly |-> <<>>, poskw |-> <<>>, kwonly |-> {"threshold", "out"},
   defaults |-> [threshold |-> "0", out |-> None]]

(* variant of thresholded_relu_call: the raw buffer of `out` is passed on *)
thresholded_relu_call_rawout(self, threshold, out) ==
  [fn |-> "thresholded_relu", args |-> <<data[self]>>,
   kwargs |-> [threshold |-> threshold,
               out |-> IF out \in Handles THEN data[out] ELSE out]]

(* line 91: the backend invocation made by thresholded_relu *)
thresholded_relu_call(self, threshold, out) ==
  [fn |-> "thresholded_relu", args |-> <<data[self]>>,
   kwargs |-> [threshold |-> threshold, out |-> out]]

(* a call of handle.thresholded_relu with positional and keyword arguments: bind the arguments, then forward to ivy.thresholded_relu *)
thresholded_relu ==
  /\ pc = "idle"
  /\ \E self \in Handles, pos \in PosArgs, kw \in KwArgs :
       LET b == Bind(thresholded_relu_sig, pos, kw) IN
       IF b.ok
       THEN Forward("thresholded_relu", self, pos, kw, thresholded_relu_call(self, b.args["threshold"], b.args["out"]))
       ELSE Reject("thresholded_relu", self, pos, kw)

(* variant of prelu_sig: slope is given a default *)
prelu_sig_optional ==
  [posonly |-> <<"slope">>, poskw |-> <<>>, kwonly |-> {"out"},
   defaults |-> [slope |-> None, out |-> None]]

(* def prelu, lines 93-99: the declared parameters after self and their defaults *)
prelu_sig ==
  [posonly |-> <<"slope">>, poskw |-> <<>>, kwonly |-> {"out"},
   defaults |-> [out |-> None]]

(* line 124: the backend invocation made by prelu *)
prelu_call(self, slope, out) ==
  [fn |-> "prelu", args |-> <<data[self], slope>>,
   kwargs |-> [out |-> out]]

(* a call of handle.prelu with positional and keyword arguments: bind the arguments, then forward to ivy.prelu *)
prelu ==
  /\ pc = "idle"
  /\ \E self \in Handles, pos \in PosArgs, kw \in KwArgs :
       LET b == Bind(prelu_sig, pos, kw) IN
       IF b.ok
       THEN Forward("prelu", self, pos, kw, prelu_call(self, b.args["slope"], b.args["out"]))
       ELSE Reject("prelu", self, pos, kw)

(* def relu6, lines 126-132: the declared parameters after self and their defaults *)
relu6_sig ==
  [posonly |-> <<>>, poskw |-> <<>>, kwonly |-> {"complex_mode", "out"},
   defaults |-> [complex_mode |-> "'jax'", out |-> None]]

(* line 168: the backend invocation made by relu6 *)
relu6_call(self, complex_mode, out) ==
  [fn |-> "relu6", args |-> <<data[self]>>,
   kwargs |-> [complex_mode |-> complex_mode, out |-> out]]

(* a call of handle.relu6 with positional and keyword arguments: bind the arguments, then forward to ivy.relu6 *)
relu6 ==
  /\ pc = "idle"
  /\ \E self \in Handles, pos \in PosArgs, kw \in KwArgs :
       LET b == Bind(relu6_sig, pos, kw) IN
       IF b.ok
       THEN Forward("relu6", self, pos, kw, relu6_call(self, b.args["complex_mode"], b.args["out"]))
       ELSE Reject("relu6", self, pos, kw)

(* variant of logsigmoid_sig: an `out` keyword is declared *)
logsigmoid_sig_out ==
  [posonly |-> <<>>, poskw |-> <<"complex_mode">>, kwonly |-> {"out"},
   defaults |-> [complex_mode |-> "'jax'", out |-> None]]

(* def logsigmoid, lines 170-173: the declared parameters after self and their defaults *)
logsigmoid_sig ==
  [posonly |-> <<>>, poskw |-> <<"complex_mode">>, kwonly |-> {},
   defaults |-> [complex_mode |-> "'jax'"]]

(* line 203: the backend invocation made by logsigmoid *)
logsigmoid_call(self, complex_mode) ==
  [fn |-> "logsigmoid", args |-> <<data[self]>>,
   kwargs |-> [complex_mode |-> complex_mode]]

(* a call of handle.logsigmoid with positional and keyword arguments: bind the arguments, then forward to ivy.logsigmoid *)
logsigmoid ==
  /\ pc = "idle"
  /\ \E self \in Handles, pos \in PosArgs, kw \in KwArgs :
       LET b == Bind(logsigmoid_sig, pos, kw) IN
       IF b.ok
       THEN Forward("logsigmoid", self, pos, kw, logsigmoid_call(self, b.args["complex_mode"]))
       ELSE Reject("logsigmoid", self, pos, kw)

(* def selu, lines 205-205: the declared parameters after self and their defaults *)
selu_sig ==
  [posonly |-> <<>>, poskw |-> <<>>, kwonly |-> {"out"},
   defaults |-> [out |-> None]]

(* line 240: the backend invocation made by selu *)
selu_call(self, out) ==
  [fn |-> "selu", args |-> <<data[self]>>,
   kwargs |-> [out |-> out]]

(* variant of selu: the method itself overwrites the buffer of `out` *)
selu_clears_out ==
  /\ pc = "idle"
  /\ \E self \in Handles, pos \in PosArgs, kw \in KwArgs :
       LET b == Bind(selu_sig, pos, kw) IN
       IF b.ok
       THEN /\ call' = [method |-> "selu", recv |-> self, pos |-> pos, kw |-> kw]
            /\ log' = Append(log, selu_call(self, b.args["out"]))
            /\ pc' = "backend"
            /\ contents' = IF b.args["out"] \in Handles
                           THEN [contents EXCEPT ![data[b.args["out"]]] = "x"]
                           ELSE contents
            /\ UNCHANGED <<bres, result, data>>
       ELSE Reject("selu", self, pos, kw)

(* a call of handle.selu with positional and keyword arguments: bind the arguments, then forward to ivy.selu *)
selu ==
  /\ pc = "idle"
  /\ \E self \in Handles, pos \in PosArgs, kw \in KwArgs :
       LET b == Bind(selu_sig, pos, kw) IN
       IF b.ok
       THEN Forward("selu", self, pos, kw, selu_call(self, b.args["out"]))
       ELSE Reject("selu", self, pos, kw)

(* def silu, lines 242-242: the declared parameters after self and their defaults *)
silu_sig ==
  [posonly |-> <<>>, poskw |-> <<>>, kwonly |-> {"out"},
   defaults |-> [out |-> None]]

(* line 263: the backend invocation made by silu *)
silu_call(self, out) ==
  [fn |-> "silu", args |-> <<data[self]>>,
   kwargs |-> [out |-> out]]

(* a call of handle.silu with positional and keyword arguments: bind the arguments, then forward to ivy.silu *)
silu ==
  /\ pc = "idle"
  /\ \E self \in Handles, pos \in PosArgs, kw \in KwArgs :
       LET b == Bind(silu_sig, pos, kw) IN
       IF b.ok
       THEN Forward("silu", self, pos, kw, silu_call(self, b.args["out"]))
       ELSE Reject("silu", self, pos, kw)

(* variant of elu_sig: alpha defaults to the integer 1 *)
elu_sig_int ==
  [posonly |-> <<>>, poskw |-> <<>>, kwonly |-> {"alpha", "out"},
   defaults |-> [alpha |-> "1", out |-> None]]

(* def elu, lines 265-271: the declared parameters after self and their defaults *)
elu_sig ==
  [posonly |-> <<>>, poskw |-> <<>>, kwonly |-> {"alpha", "out"},
   defaults |-> [alpha |-> "1.0", out |-> None]]

(* line 299: the backend invocation made by elu *)
elu_call(self, alpha, out) ==
  [fn |-> "elu", args |-> <<data[self]>>,
   kwargs |-> [alpha |-> alpha, out |-> out]]

(* a call of handle.elu with positional and keyword arguments: bind the arguments, then forward to ivy.elu *)
elu ==
  /\ pc = "idle"
  /\ \E self \in Handles, pos \in PosArgs, kw \in KwArgs :
       LET b == Bind(elu_sig, pos, kw) IN
       IF b.ok
       THEN Forward("elu", self, pos, kw, elu_call(self, b.args["alpha"], b.args["out"]))
       ELSE Reject("elu", self, pos, kw)

(* def hardtanh, lines 301-308: the declared parameters after self and their defaults *)
hardtanh_sig ==
  [posonly |-> <<>>, poskw |-> <<>>, kwonly |-> {"max_val", "min_val", "out"},
   defaults |-> [max_val |-> "1", min_val |-> "-1", out |-> None]]

(* variant of hardtanh_call: the two range arguments are exchanged *)
hardtanh_call_swapped(self, max_val, min_val, out) ==
  [fn |-> "hardtanh", args |-> <<data[self]>>,
   kwargs |-> [min_val |-> max_val, max_val |-> min_val, out |-> out]]

(* line 339: the backend invocation made by hardtanh *)
hardtanh_call(self, max_val, min_val, out) ==
  [fn |-> "hardtanh", args |-> <<data[self]>>,
   kwargs |-> [min_val |-> min_val, max_val |-> max_val, out |-> out]]

(* a call of handle.hardtanh with positional and keyword arguments: bind the arguments, then forward to ivy.hardtanh *)
hardtanh ==
  /\ pc = "idle"
  /\ \E self \in Handles, pos \in PosArgs, kw \in KwArgs :
       LET b == Bind(hardtanh_sig, pos, kw) IN
       IF b.ok
       THEN Forward("hardtanh", self, pos, kw, hardtanh_call(self, b.args["max_val"], b.args["min_val"], b.args["out"]))
       ELSE Reject("hardtanh", self, pos, kw)

(* def tanhshrink, lines 341-341: the declared parameters after self and their defaults *)
tanhshrink_sig ==
  [posonly |-> <<>>, poskw |-> <<>>, kwonly |-> {"out"},
   defaults |-> [out |-> None]]

(* line 362: the backend invocation made by tanhshrink *)
tanhshrink_call(self, out) ==
  [fn |-> "tanhshrink", args |-> <<data[self]>>,
   kwargs |-> [out |-> out]]

(* a call of handle.tanhshrink with positional and keyword arguments: bind the arguments, then forward to ivy.tanhshrink *)
tanhshrink ==
  /\ pc = "idle"
  /\ \E self \in Handles, pos \in PosArgs, kw \in KwArgs :
       LET b == Bind(tanhshrink_sig, pos, kw) IN
       IF b.ok
       THEN Forward("tanhshrink", self, pos, kw, tanhshrink_call(self, b.args["out"]))
       ELSE Reject("tanhshrink", self, pos, kw)

(* def celu, lines 364-371: the declared parameters after self and their defaults *)
celu_sig ==
  [posonly |-> <<>>, poskw |-> <<>>, kwonly |-> {"alpha", "complex_mode", "out"},
   defaults |-> [alpha |-> "1.0", complex_mode |-> "'jax'", out |-> None]]

(* line 402: the backend invocation made by celu *)
celu_call(self, alpha, complex_mode, out) ==
  [fn |-> "celu", args |-> <<data[self]>>,
   kwargs |-> [alpha |-> alpha, complex_mode |-> complex_mode, out |-> out]]

(* a call of handle.celu with positional and keyword arguments: bind the arguments, then forward to ivy.celu *)
celu ==
  /\ pc = "idle"
  /\ \E self \in Handles, pos \in PosArgs, kw \in KwArgs :
       LET b == Bind(celu_sig, pos, kw) IN
       IF b.ok
       THEN Forward("celu", self, pos, kw, celu_call(self, b.args["alpha"], b.args["complex_mode"], b.args["out"]))
       ELSE Reject("celu", self, pos, kw)

----------------------------------------------------------------------------
(* The backend function (external): returns some value, possibly after      *)
(* writing into the buffer of the `out` handle it received, or raises.      *)
OutOf(rec) ==
  IF "out" \in DOMAIN rec.kwargs THEN rec.kwargs["out"] ELSE None

BackendReturn ==
  /\ pc = "backend"
  /\ \E r \in RetVals, w \in BOOLEAN, v \in BufVals :
       LET o == OutOf(log[Len(log)]) IN
       /\ bres' = Ret(r)
       /\ contents' = IF w /\ o \in Handles
                      THEN [contents EXCEPT ![data[o]] = v]
                      ELSE contents
  /\ pc' = "ret_pending"
  /\ UNCHANGED <<call, log, result, data>>

BackendRaise ==
  /\ pc = "backend"
  /\ \E e \in BackendErrors : bres' = Exc(e)
  /\ pc' = "exc_pending"
  /\ UNCHANGED <<call, log, result, data, contents>>

(* variant of Return: a handle coming back from the backend is unwrapped *)
Return_unwrap ==
  /\ pc = "ret_pending"
  /\ result' = Ret(IF bres.val \in Handles THEN data[bres.val] ELSE bres.val)
  /\ pc' = "returned"
  /\ UNCHANGED <<call, log, bres, data, contents>>

(* `return ivy.<fn>(...)`: the value of the backend call is the method's value *)
Return ==
  /\ pc = "ret_pending"
  /\ result' = Ret(bres.val)
  /\ pc' = "returned"
  /\ UNCHANGED <<call, log, bres, data, contents>>

(* variant of Propagate: the backend's exception is swallowed *)
Propagate_swallow ==
  /\ pc = "exc_pending"
  /\ result' = Ret(None)
  /\ pc' = "returned"
  /\ UNCHANGED <<call, log, bres, data, contents>>

(* no try/except anywhere in the class: an exception leaves the method as is *)
Propagate ==
  /\ pc = "exc_pending"
  /\ result' = Exc(bres.val)
  /\ pc' = "raised"
  /\ UNCHANGED <<call, log, bres, data, contents>>

(* the caller takes the outcome; the stub's recording is cleared *)
Collect ==
  /\ pc \in {"returned", "raised"}
  /\ pc' = "idle"
  /\ call' = NoCall
  /\ log' = <<>>
  /\ bres' = NoOutcome
  /\ result' = NoOutcome
  /\ UNCHANGED <<data, contents>>

Init ==
  /\ pc = "idle"
  /\ call = NoCall
  /\ log = <<>>
  /\ bres = NoOutcome
  /\ result = NoOutcome
  /\ data = [h \in Handles |-> BufferNames[IndexOf(HandleNames, h)]]
  /\ contents = [b \in Buffers |-> "x"]

Next ==
  \/ logit
  \/ thresholded_relu
  \/ prelu
  \/ relu6
  \/ logsigmoid
  \/ selu
  \/ silu
  \/ elu
  \/ hardtanh
  \/ tanhshrink
  \/ celu
  \/ BackendReturn
  \/ BackendRaise
  \/ Return
  \/ Propagate
  \/ Collect

Spec == Init /\ [][Next]_vars

TypeOK ==
  /\ pc \in {"idle", "backend", "ret_pending", "exc_pending", "returned", "raised"}
  /\ Len(log) <= 1
  /\ data \in [Handles -> Buffers]
  /\ contents \in [Buffers -> BufVals]

----------------------------------------------------------------------------
(* Vocabulary of the properties *)

(* the call was refused by argument binding *)
Rejected == pc = "raised" /\ bres.kind = "none"

(* the call passed argument binding, so that the method body ran *)
Accepted == pc # "idle" /\ ~Rejected

(* the methods that declare an `out` parameter *)
OutMethods == MethodNames \ {"logsigmoid"}

(* parameter n was given by the caller, by keyword or by position *)
Supplied(n) ==
  \/ n \in DOMAIN call.kw
  \/ call.method = "logsigmoid" /\ n = "complex_mode" /\ Len(call.pos) >= 1
  \/ call.method = "prelu" /\ n = "slope" /\ Len(call.pos) >= 1

(* the first operand each method hands to the backend *)
Operand == IF call.method = "logit" THEN call.recv ELSE data[call.recv]

(* every argument of the call appears in rec under its own parameter name *)
ArgsForwarded(rec) ==
  /\ \A n \in DOMAIN call.kw :
       n \in DOMAIN rec.kwargs /\ rec.kwargs[n] = call.kw[n]
  /\ (call.method = "prelu") => (Len(rec.args) = 2 /\ rec.args[2] = call.pos[1])
  /\ (call.method # "prelu") => (Len(rec.args) = 1)
  /\ (call.method = "logsigmoid" /\ Len(call.pos) = 1)
       => (rec.kwargs["complex_mode"] = call.pos[1])

(* the defaults of section 4.1 of the specification *)
DocumentedDefaults ==
  [logit            |-> [eps |-> "None", complex_mode |-> "'jax'", out |-> "None"],
   thresholded_relu |-> [threshold |-> "0", out |-> "None"],
   prelu            |-> [out |-> "None"],
   relu6            |-> [complex_mode |-> "'jax'", out |-> "None"],
   logsigmoid       |-> [complex_mode |-> "'jax'"],
   selu             |-> [out |-> "None"],
   silu             |-> [out |-> "None"],
   elu              |-> [alpha |-> "1.0", out |-> "None"],
   hardtanh         |-> [max_val |-> "1", min_val |-> "-1", out |-> "None"],
   tanhshrink       |-> [out |-> "None"],
   celu             |-> [alpha |-> "1.0", complex_mode |-> "'jax'", out |-> "None"]]

(* the values a backend call may be built from: the receiver, its buffer, *)
(* the arguments of the call and the literals of the signatures           *)
Provenance ==
  {call.recv, data[call.recv]} \cup {call.pos[i] : i \in 1..Len(call.pos)}
    \cup {call.kw[n] : n \in DOMAIN call.kw}
    \cup {"None", "'jax'", "0", "1.0", "1", "-1"}

----------------------------------------------------------------------------
(* C1 as stated: every accepted call of a method N invokes backend N       *)
(* exactly once and nothing else, with the receiver's data (`_data`) as    *)
(* first operand and every other argument forwarded under its own name.    *)
C1_AsStated ==
  Accepted =>
    /\ Len(log) = 1
    /\ log[1].fn = call.method
    /\ log[1].args[1] = data[call.recv]
    /\ ArgsForwarded(log[1])

(* C1 amended: the same, except that the first operand is the receiver     *)
(* handle itself for logit and the receiver's `_data` for the other ten.   *)
C1_ForwardsOnce ==
  Accepted =>
    /\ Len(log) = 1
    /\ log[1].fn = call.method
    /\ log[1].args[1] = Operand
    /\ ArgsForwarded(log[1])

C1_Witness ==
  /\ pc = "returned"
  /\ call.method = "hardtanh"
  /\ DOMAIN call.kw = {"max_val", "min_val", "out"}
  /\ Len(log) = 1

(* C2: for the ten methods with `out`, the backend receives as `out`       *)
(* exactly the handle the caller passed, and None when it was omitted.     *)
C2_OutForwarded ==
  (Accepted /\ call.method \in OutMethods) =>
    /\ Len(log) = 1
    /\ "out" \in DOMAIN log[1].kwargs
    /\ log[1].kwargs["out"] =
         (IF "out" \in DOMAIN call.kw THEN call.kw["out"] ELSE "None")

C2_Witness ==
  /\ pc = "backend"
  /\ call.method = "thresholded_relu"
  /\ "out" \in DOMAIN call.kw
  /\ call.kw["out"] # call.recv
  /\ log[1].kwargs["out"] \in Handles

(* C3: every optional parameter the caller omits reaches the backend with  *)
(* its documented default.                                                 *)
C3_DefaultFidelity ==
  Accepted =>
    /\ Len(log) = 1
    /\ \A n \in DOMAIN DocumentedDefaults[call.method] :
         ~Supplied(n) =>
           /\ n \in DOMAIN log[1].kwargs
           /\ log[1].kwargs[n] = DocumentedDefaults[call.method][n]

C3_Witness ==
  /\ pc = "returned"
  /\ call.method = "elu"
  /\ DOMAIN call.kw = {}
  /\ log[1].kwargs["alpha"] = "1.0"

(* C4: when the backend raises e, the facade call ends by raising e: it    *)
(* returns no value, raises nothing else, and makes no second backend call.*)
C4_ExceptionTransparent ==
  (bres.kind = "exc") =>
    /\ pc \in {"exc_pending", "raised"}
    /\ Len(log) = 1
    /\ result.kind # "ret"
    /\ (pc = "raised") => (result = Exc(bres.val))

C4_Witness ==
  /\ pc = "raised"
  /\ bres.kind = "exc"
  /\ result.val \in BackendErrors

(* C5: a prelu call without slope fails and no backend call is made.       *)
C5_PreluNeedsSlope ==
  (call.method = "prelu" /\ ~Supplied("slope")) =>
    /\ pc = "raised"
    /\ result = Exc(TypeError)
    /\ log = <<>>
    /\ bres.kind = "none"

C5_Witness ==
  /\ call.method = "prelu"
  /\ call.pos = <<>>
  /\ DOMAIN call.kw = {"out"}
  /\ pc = "raised"

(* C6: when the backend returns r, the facade call returns exactly r.      *)
C6_ReturnsBackendValue ==
  (pc = "returned") => (bres.kind = "ret" /\ result = Ret(bres.val))

C6_Witness ==
  /\ pc = "returned"
  /\ "out" \in DOMAIN call.kw
  /\ result.val = call.kw["out"]

(* C7 as stated: handle.logit() against a stub returning a sentinel        *)
(* returns the sentinel and records the single call                        *)
(* logit(data, eps=None, complex_mode="jax", out=None), data being the     *)
(* buffer the handle wraps.                                                *)
C7_AsStated ==
  (/\ call.method = "logit" /\ call.pos = <<>> /\ DOMAIN call.kw = {}
   /\ pc = "returned" /\ bres = Ret("sentinel")) =>
    /\ result = Ret("sentinel")
    /\ log = << [fn |-> "logit", args |-> <<data[call.recv]>>,
                 kwargs |-> [eps |-> "None", complex_mode |-> "'jax'",
                             out |-> "None"]] >>

(* C7 amended: the same scenario records the single call                   *)
(* logit(handle, eps=None, complex_mode="jax", out=None): the first        *)
(* operand is the handle itself.                                           *)
C7_LogitScenario ==
  (/\ call.method = "logit" /\ call.pos = <<>> /\ DOMAIN call.kw = {}
   /\ pc = "returned" /\ bres = Ret("sentinel")) =>
    /\ result = Ret("sentinel")
    /\ log = << [fn |-> "logit", args |-> <<call.recv>>,
                 kwargs |-> [eps |-> "None", complex_mode |-> "'jax'",
                             out |-> "None"]] >>

C7_Witness ==
  /\ call.method = "logit" /\ call.pos = <<>> /\ DOMAIN call.kw = {}
  /\ pc = "returned"
  /\ result = Ret("sentinel")

(* C8: the ten methods other than logsigmoid accept out=h and reach the    *)
(* backend; logsigmoid with out=h fails before any backend call, and a     *)
(* successful logsigmoid call passes no `out` to the backend.              *)
C8_OutExceptLogsigmoid ==
  /\ (/\ call.method \in OutMethods
      /\ DOMAIN call.kw = {"out"}
      /\ Len(call.pos) = (IF call.method = "prelu" THEN 1 ELSE 0))
       => (Accepted /\ Len(log) = 1 /\ log[1].fn = call.method)
  /\ (call.method = "logsigmoid" /\ "out" \in DOMAIN call.kw)
       => (Rejected /\ result = Exc(TypeError) /\ log = <<>>)
  /\ (call.method = "logsigmoid" /\ Accepted)
       => (Len(log) = 1 /\ "out" \notin DOMAIN log[1].kwargs)

C8_Witness ==
  /\ call.method = "logsigmoid"
  /\ DOMAIN call.kw = {"out"}
  /\ call.pos = <<>>
  /\ pc = "raised"

(* C9: the facade's own steps change neither `_data` nor the contents of   *)
(* any buffer (only the backend step may write), and the backend call is   *)
(* built from the call's receiver and arguments alone.                     *)
C9_Step ==
  /\ (pc # "backend") => (data' = data /\ contents' = contents)
  /\ (Len(log') = 1) =>
       /\ \A i \in 1..Len(log'[1].args) : log'[1].args[i] \in Provenance'
       /\ \A n \in DOMAIN log'[1].kwargs : log'[1].kwargs[n] \in Provenance'

C9_Stateless == [][C9_Step]_vars

C9_Witness ==
  /\ pc = "returned"
  /\ call.method = "selu"
  /\ "out" \in DOMAIN call.kw
  /\ contents[data[call.recv]] = "y"
  /\ contents[data[call.kw["out"]]] = "x"

(* C10: logit passes the receiver handle itself as first operand; the      *)
(* other ten methods pass the receiver's raw buffer `_data`.               *)
C10_PrimaryOperand ==
  (Len(log) = 1) =>
    /\ (log[1].fn = "logit") => (log[1].args[1] = call.recv)
    /\ (log[1].fn # "logit") => (log[1].args[1] = data[call.recv])
    /\ (log[1].args[1] \in Handles) <=> (log[1].fn = "logit")

C10_Witness ==
  /\ pc = "backend"
  /\ log[1].fn = "logit"
  /\ log[1].args[1] = call.recv
  /\ "eps" \in DOMAIN call.kw

====
